---- MODULE Spec2Model ----
(***************************************************************************)
(* ESP32 temperature server (data_server.ino, temper.h).                   *)
(*                                                                         *)
(* The loop task (setup/loop/setupWiFi) and the HTTP handlers of the async *)
(* web server are modelled as actions over the sketch's global variables.  *)
(* Text values that the code parses or formats (sensor readings, request   *)
(* parameters of /updateSettings, timestamps) are sequences of one-        *)
(* character strings; opaque text (credentials) is a TLA+ string.          *)
(* Temperatures are fixed-point numbers in hundredths of a degree.         *)
(* unsigned long values are the two's complement reading of their 32 bits. *)
(***************************************************************************)
EXTENDS Integers, Sequences, FiniteSets, TLC

(***************************************************************************)
(* Program constants                                                       *)
(***************************************************************************)
MAX_ROWS == 288
timerDelay == 300000
DefaultNotificationDelay == 1800000
DefaultMinTemp == 2200
DefaultMaxTemp == 2500
MaxRetries == 60
PollDelayMs == 500
DisconnectedC == -12700
DisconnectedFInt == -196
SECRET_PASSCODE == "secret"
Personal == "WPA2-Personal"
Enterprise == "WPA2-Enterprise"

(***************************************************************************)
(* Bounds of the model                                                     *)
(***************************************************************************)
\* appends per process lifetime explored by Spec
MaxAppends == 3
\* appends per process lifetime explored by SpecProv
ProvAppends == 1
\* appends per process lifetime explored by SpecStore (wraps the store)
StoreAppends == 290
\* appends per process lifetime explored by SpecSet
SetAppends == 2
\* appends per process lifetime explored by SpecLive
LiveAppends == 1
\* appends per process lifetime explored by SpecClock
ClockAppends == 4
\* appends per process lifetime explored by SpecRace
RaceAppends == 3

(***************************************************************************)
(* unsigned long (32 bit) arithmetic on two's complement integers          *)
(***************************************************************************)
Limb == 65536
\* float: 2^23, the weight of the significand's leading bit
FloatMantissa == 8388608
\* float: below 2^17 neighbouring values are less than a hundredth apart
FloatExact == 131072

Norm32(hi, lo) ==
  LET h == hi % Limb
  IN  IF h >= 32768 THEN (h - Limb) * Limb + lo ELSE h * Limb + lo

\* a + b modulo 2^32
Add32(a, b) ==
  LET lo == (a % Limb) + (b % Limb)
      hi == (a \div Limb) + (b \div Limb) + (lo \div Limb)
  IN  Norm32(hi, lo % Limb)

\* a - b modulo 2^32, as in millis() - lastTime
Sub32(a, b) ==
  LET lo == (a % Limb) - (b % Limb)
      hi == (a \div Limb) - (b \div Limb) + (lo \div Limb)
  IN  Norm32(hi, lo % Limb)

\* unsigned a > b
UGt(a, b) == IF (a < 0) = (b < 0) THEN a > b ELSE a < 0

\* unsigned a divided by 60000: the minute a millisecond count falls in
UMinutes(a) ==
  IF a >= 0 THEN a \div 60000
  ELSE (((a \div 2) + 1073741824) + 1073741824) \div 30000

(***************************************************************************)
(* Arduino String: formatting and parsing                                  *)
(***************************************************************************)
EmptyStr == << >>
Sentinel == <<"-", "-">>
DigitChars == <<"0", "1", "2", "3", "4", "5", "6", "7", "8", "9">>

DigitChar(d) == DigitChars[d + 1]

IsDigit(ch) == \E d \in 0..9 : DigitChars[d + 1] = ch

DigitVal(ch) == CHOOSE d \in 0..9 : DigitChars[d + 1] = ch

RECURSIVE Digits(_)
\* decimal digits of a natural number
Digits(n) == IF n < 10 THEN <<DigitChar(n)>>
             ELSE Digits(n \div 10) \o <<DigitChar(n % 10)>>

\* String(float): two decimals
FormatFloat(c) ==
  LET a == IF c < 0 THEN -c ELSE c
  IN  (IF c < 0 THEN <<"-">> ELSE << >>)
      \o Digits(a \div 100) \o <<".">>
      \o <<DigitChar((a \div 10) % 10), DigitChar(a % 10)>>

RECURSIVE ScanDigits(_, _, _, _)
\* the run of digits of s from position i: value, digit count, next position
ScanDigits(s, i, acc, n) ==
  IF i <= Len(s) /\ IsDigit(s[i])
  THEN ScanDigits(s, i + 1, acc * 10 + DigitVal(s[i]), n + 1)
  ELSE [v |-> acc, n |-> n, i |-> i]

SignLen(s) == IF Len(s) >= 1 /\ s[1] \in {"-", "+"} THEN 1 ELSE 0

\* the only element of a singleton set
Only(S) == CHOOSE x \in S : TRUE

IntFrom(s, ip) ==
  IF ip.n = 0 THEN 0
  ELSE IF SignLen(s) = 1 /\ s[1] = "-" THEN -ip.v ELSE ip.v

\* String::toInt (atol): optional sign, digits; 0 when there is no digit
ToInt(s) == Only({ IntFrom(s, ip) : ip \in {ScanDigits(s, SignLen(s) + 1, 0, 0)} })

\* the value in hundredths, given the integer part ip scanned from s
FloatFrom(s, ip) ==
  LET dot  == ip.i <= Len(s) /\ s[ip.i] = "."
      has1 == dot /\ ip.i + 1 <= Len(s) /\ IsDigit(s[ip.i + 1])
      has2 == has1 /\ ip.i + 2 <= Len(s) /\ IsDigit(s[ip.i + 2])
      f1   == IF has1 THEN DigitVal(s[ip.i + 1]) ELSE 0
      f2   == IF has2 THEN DigitVal(s[ip.i + 2]) ELSE 0
      mag  == ip.v * 100 + f1 * 10 + f2
  IN  IF ip.n = 0 /\ ~has1 THEN 0
      ELSE IF SignLen(s) = 1 /\ s[1] = "-" THEN -mag ELSE mag

\* n / m rounded to the nearest integer, ties to even (n >= 0, m > 0)
RoundHalfEven(n, m) ==
  IF 2 * (n % m) < m THEN n \div m
  ELSE IF 2 * (n % m) > m THEN (n \div m) + 1
  ELSE (n \div m) + ((n \div m) % 2)

RECURSIVE FloatStep(_, _)
\* the number of floats per degree around a hundredths (a >= 2^17 degrees):
\* 2^23 / p for the power of two p with p <= a / 100 < 2p, tried from 2^17
\* up; 0 stands for one float every two degrees
FloatStep(a, p) ==
  IF (a \div 200) < p THEN FloatMantissa \div p ELSE FloatStep(a, 2 * p)

\* a magnitude in hundredths rounded to a float (24 bit significand)
FloatMag(a, d) ==
  IF d >= 1 THEN (RoundHalfEven(a * d, 100) * 100 + (d \div 2)) \div d
  ELSE RoundHalfEven(a, 200) * 200

\* the float nearest to x hundredths, in hundredths; magnitudes below 2^17
\* degrees keep their hundredths
Float32(x) ==
  IF x > -FloatExact * 100 /\ x < FloatExact * 100 THEN x
  ELSE IF x < 0 THEN -Only({ FloatMag(-x, d) : d \in {FloatStep(-x, FloatExact)} })
  ELSE Only({ FloatMag(x, d) : d \in {FloatStep(x, FloatExact)} })

\* String::toFloat (atof), in hundredths: optional sign, digits, optional
\* point and decimals; 0 when nothing can be converted
ToFloat(s) ==
  Only({ Float32(x) : x \in
           { FloatFrom(s, ip) : ip \in {ScanDigits(s, SignLen(s) + 1, 0, 0)} } })

(***************************************************************************)
(* Sensor driver and clock service                                         *)
(***************************************************************************)
\* Fahrenheit reading (hundredths) of a raw Celsius reading (hundredths)
CToF(c) ==
  LET x == c * 18 + 32000
  IN  IF x >= 0 THEN (x + 5) \div 10 ELSE -((-x + 5) \div 10)

\* int(float): truncation towards zero of a value in hundredths
TruncInt(x) == IF x >= 0 THEN x \div 100 ELSE -((-x) \div 100)

readDSTemperatureC(raw) ==
  IF raw = DisconnectedC THEN Sentinel ELSE FormatFloat(raw)

readDSTemperatureF(raw) ==
  IF TruncInt(CToF(raw)) = DisconnectedFInt THEN Sentinel
  ELSE FormatFloat(CToF(raw))

\* the formatted local time (minute resolution), or the sentinel
getLocalTime(ok, t) == IF ok THEN Digits(UMinutes(t)) ELSE Sentinel

(***************************************************************************)
(* State                                                                   *)
(***************************************************************************)
VARIABLES
  \* provisioning credentials and their received flags (data_server.ino)
  security, ssid, password, EAP_IDENTITY, EAP_PASSWORD, passcode,
  ssid_received, username_received, passcode_received, password_received,
  security_received, waiting_to_connect,
  \* setupWiFi: retry counter and the association handed to the radio
  counter, sta,
  \* HTTP routes registered by setupServer
  routes,
  \* threshold configuration and notification state
  MIN_TEMP, MAX_TEMP, teamsNotificationDelay, lastTime, lastNotifyTime,
  sendNotif,
  \* latest reading and the sample store (temper.h)
  temperatureC, temperatureF, currentTime, temperatureArray, Temp_Array_Index,
  \* position of the loop task, and the millisecond clock it last observed
  pc, now,
  \* history: last operation, readings appended so far, facts of the last
  \* sampling tick, identity notifications sent, the parameter names and the
  \* passcodes the /get requests have supplied, the last /updateSettings
  \* request with the configuration it found
  lastOp, appended, tk, infoSent, supplied, codes, web

credVars == <<security, ssid, password, EAP_IDENTITY, EAP_PASSWORD, passcode,
              ssid_received, username_received, passcode_received,
              password_received, security_received>>
configVars == <<MIN_TEMP, MAX_TEMP, teamsNotificationDelay>>
alertVars == <<lastNotifyTime, sendNotif>>
storeVars == <<temperatureC, temperatureF, currentTime, temperatureArray,
               Temp_Array_Index, appended>>
histVars == <<supplied, codes, web>>
vars == <<credVars, waiting_to_connect, counter, sta, routes, configVars,
          lastTime, alertVars, storeVars, pc, now, lastOp, tk, infoSent,
          histVars>>

EmptyReading ==
  [temperatureC |-> EmptyStr, temperatureF |-> EmptyStr, currentTime |-> EmptyStr]

\* temperatureArray maps the slots written so far to their readings; every
\* other slot of the MAX_ROWS slots holds the empty reading it was
\* constructed with
NoSlotWritten == [i \in {} |-> EmptyReading]

NoAssociation == [kind |-> "none", ssid |-> "", key |-> "", identity |-> ""]

\* facts of the last sampling tick (armed0, last0: the notification state it
\* found; elapsed: the time since lastNotifyTime at the repeat test; posts,
\* delivered: the POSTs it made and those that succeeded) and of the POSTs of
\* this process lifetime (posted: one was made, postAt: when the latest one
\* returned; posted0, sincePost: the same before the tick, as the time
\* elapsed at its repeat test; episode: the POSTs made since a tick last read
\* a temperature within the bounds), and at: the clock reading at which the
\* latest sample was taken
NoTick ==
  [armed0 |-> FALSE, last0 |-> 0, elapsed |-> 0, posts |-> 0, delivered |-> 0,
   posted |-> FALSE, postAt |-> 0, posted0 |-> FALSE, sincePost |-> 0,
   episode |-> 0, at |-> 0]

Absent == <<"(absent)">>

SettingsRequest(lo, hi, delay) ==
  [minTemperature |-> lo, maxTemperature |-> hi, timerDelay |-> delay]

InfoJson(lo, hi, minutes) ==
  [MinTemp |-> lo, MaxTemp |-> hi, timerDelay |-> minutes]

\* no /updateSettings request yet
NoWeb ==
  [req |-> SettingsRequest(Absent, Absent, Absent),
   before |-> SettingsRequest(DefaultMinTemp, DefaultMaxTemp,
                              DefaultNotificationDelay)]

\* variant: every route is registered from the start
setupServer_All(waiting) == {"/", "/get", "/data", "/info", "/updateSettings"}

\* setupServer: the routes it registers
setupServer(waiting) ==
  IF waiting THEN {"/", "/get"} ELSE {"/", "/data", "/info", "/updateSettings"}

\* the globals' initializers, then setup()
Init ==
  /\ security = "" /\ ssid = "" /\ password = ""
  /\ EAP_IDENTITY = "" /\ EAP_PASSWORD = "" /\ passcode = ""
  /\ ssid_received = FALSE /\ username_received = FALSE
  /\ passcode_received = FALSE /\ password_received = FALSE
  /\ security_received = FALSE
  /\ waiting_to_connect = TRUE
  /\ counter = 0
  /\ sta = NoAssociation
  /\ routes = setupServer(TRUE)
  /\ MIN_TEMP = DefaultMinTemp /\ MAX_TEMP = DefaultMaxTemp
  /\ teamsNotificationDelay = DefaultNotificationDelay
  /\ lastTime = 0 /\ lastNotifyTime = 0 /\ sendNotif = FALSE
  /\ temperatureC = EmptyStr /\ temperatureF = EmptyStr /\ currentTime = EmptyStr
  /\ temperatureArray = NoSlotWritten
  /\ Temp_Array_Index = 0
  /\ pc = "loop" /\ now = 0
  /\ lastOp = "setup" /\ appended = << >> /\ tk = NoTick /\ infoSent = << >>
  /\ supplied = {} /\ codes = {} /\ web = NoWeb

(***************************************************************************)
(* Provisioning: the /get handler                                          *)
(***************************************************************************)
NoParam == "(absent)"

ParamNames == {"Security", "SSID", "Username", "Passcode", "Password"}

hasParam(r, name) == r[name] # NoParam

\* variant: any passcode is accepted
PasscodeMatches_Any(p) == TRUE

PasscodeMatches(p) == p = SECRET_PASSCODE

\* which credential slot a Password parameter is stored in, if any
PasswordSlot(sec) ==
  IF sec = Personal THEN "password"
  ELSE IF sec = Enterprise THEN "EAP_PASSWORD" ELSE "none"

Get(r) ==
  /\ pc # "restart"
  /\ "/get" \in routes
  /\ LET sec == IF hasParam(r, "Security") THEN r.Security ELSE security
         slot == IF hasParam(r, "Password") THEN PasswordSlot(sec) ELSE "none"
     IN  /\ security' = sec
         /\ security_received' = (security_received \/ hasParam(r, "Security"))
         /\ ssid' = IF hasParam(r, "SSID") THEN r.SSID ELSE ssid
         /\ ssid_received' = (ssid_received \/ hasParam(r, "SSID"))
         /\ EAP_IDENTITY' = IF hasParam(r, "Username") THEN r.Username
                            ELSE EAP_IDENTITY
         /\ username_received' = (username_received \/ hasParam(r, "Username"))
         /\ passcode' = IF hasParam(r, "Passcode") THEN r.Passcode ELSE passcode
         /\ passcode_received' =
              (passcode_received
                 \/ (hasParam(r, "Passcode") /\ PasscodeMatches(r.Passcode)))
         /\ password' = IF slot = "password" THEN r.Password ELSE password
         /\ EAP_PASSWORD' = IF slot = "EAP_PASSWORD" THEN r.Password
                            ELSE EAP_PASSWORD
         /\ password_received' = (password_received \/ slot # "none")
  /\ supplied' = supplied \cup {name \in ParamNames : hasParam(r, name)}
  /\ codes' = IF hasParam(r, "Passcode") THEN codes \cup {r.Passcode} ELSE codes
  /\ lastOp' = "get"
  /\ UNCHANGED <<waiting_to_connect, counter, sta, routes, configVars, lastTime,
                 alertVars, storeVars, pc, now, tk, infoSent, web>>

(***************************************************************************)
(* Monitoring: the /updateSettings and /data handlers                      *)
(***************************************************************************)
RECURSIVE Times32(_, _)
\* a * k modulo 2^32 (k >= 0), by doubling
Times32(a, k) ==
  IF k = 0 THEN 0
  ELSE Only({ Add32(Add32(h, h), IF k % 2 = 1 THEN a ELSE 0) :
                h \in {Times32(a, k \div 2)} })

\* variant: the conversion multiplies by the milliseconds of a second
minutesToMilliseconds_Short(minutes) == Times32(minutes, 1000)

\* minutes * 60 * 1000 in 32 bit arithmetic; the product of an int that does
\* not fit wraps around on this target
minutesToMilliseconds(minutes) == Times32(minutes, 60 * 1000)

\* the long value of the argument divided by 60000, truncated towards zero
millisecondsToMinutes(ms) ==
  IF ms >= 0 THEN ms \div (1000 * 60) ELSE -((-ms) \div (1000 * 60))

\* what reading through the null pointer of a missing parameter may yield
\* when it does not trap
JunkTexts == {EmptyStr, <<"7">>}

ParamMissing(r) == Absent \in {r.minTemperature, r.maxTemperature, r.timerDelay}

ParamText(text, junk) == IF text = Absent THEN junk ELSE text

\* variant: the handler also forgets when the last sample was taken
UpdateSettings_Resample(r) ==
  /\ pc # "restart"
  /\ "/updateSettings" \in routes
  /\ ~ParamMissing(r)
  /\ MIN_TEMP' = ToFloat(r.minTemperature)
  /\ MAX_TEMP' = ToFloat(r.maxTemperature)
  /\ teamsNotificationDelay' = Times32(ToInt(r.timerDelay), 60 * 1000)
  /\ lastTime' = 0
  /\ web' = [web EXCEPT !.req = r,
                        !.before = SettingsRequest(MIN_TEMP, MAX_TEMP,
                                                   teamsNotificationDelay)]
  /\ lastOp' = "updateSettings"
  /\ UNCHANGED <<credVars, waiting_to_connect, counter, sta, routes, alertVars,
                 storeVars, pc, now, tk, infoSent, supplied, codes>>

\* getParam returns a null pointer for a missing parameter and the handler
\* dereferences it: the access traps and the panic handler restarts the
\* device, or the read yields some text and the handler goes on
UpdateSettings(r) ==
  /\ pc # "restart"
  /\ "/updateSettings" \in routes
  /\ \E trap \in (IF ParamMissing(r) THEN BOOLEAN ELSE {FALSE}),
        junk \in (IF ParamMissing(r) THEN JunkTexts ELSE {EmptyStr}) :
       IF trap
       THEN /\ pc' = "restart"
            /\ UNCHANGED configVars
       ELSE /\ MIN_TEMP' = ToFloat(ParamText(r.minTemperature, junk))
            /\ MAX_TEMP' = ToFloat(ParamText(r.maxTemperature, junk))
            /\ teamsNotificationDelay' =
                 minutesToMilliseconds(ToInt(ParamText(r.timerDelay, junk)))
            /\ pc' = pc
  /\ web' = [web EXCEPT !.req = r,
                        !.before = SettingsRequest(MIN_TEMP, MAX_TEMP,
                                                   teamsNotificationDelay)]
  /\ lastOp' = "updateSettings"
  /\ UNCHANGED <<credVars, waiting_to_connect, counter, sta, routes, lastTime,
                 alertVars, storeVars, now, tk, infoSent, supplied, codes>>

\* the /info response: thresholds as ints, the interval in minutes
InfoResponse ==
  InfoJson(TruncInt(MIN_TEMP), TruncInt(MAX_TEMP),
           millisecondsToMinutes(teamsNotificationDelay))

\* the handler reads the configuration and changes nothing
Info ==
  /\ pc # "restart"
  /\ "/info" \in routes
  /\ lastOp' = "info"
  /\ UNCHANGED <<credVars, waiting_to_connect, counter, sta, routes, configVars,
                 lastTime, alertVars, storeVars, pc, now, tk, infoSent, histVars>>

\* the reading in slot i of the store
Slot(i) ==
  IF i \in DOMAIN temperatureArray THEN temperatureArray[i] ELSE EmptyReading

\* the /data response: the MAX_ROWS slots in slot order
Snapshot == [i \in 1..MAX_ROWS |-> Slot(i - 1)]

\* variant: serving /data rewinds the cursor
Data_Wipe ==
  /\ pc # "restart"
  /\ "/data" \in routes
  /\ Temp_Array_Index' = 0
  /\ lastOp' = "data"
  /\ UNCHANGED <<credVars, waiting_to_connect, counter, sta, routes, configVars,
                 lastTime, alertVars, temperatureC, temperatureF, currentTime,
                 temperatureArray, appended, pc, now, tk, infoSent, histVars>>

Data ==
  /\ pc # "restart"
  /\ "/data" \in routes
  /\ lastOp' = "data"
  /\ UNCHANGED <<credVars, waiting_to_connect, counter, sta, routes, configVars,
                 lastTime, alertVars, storeVars, pc, now, tk, infoSent, histVars>>

(***************************************************************************)
(* Sample store                                                            *)
(***************************************************************************)
Reading(c, f, t) == [temperatureC |-> c, temperatureF |-> f, currentTime |-> t]

\* the three field writes to the slot at the cursor
\* variant: the write drops every other slot
WriteSlot_Fresh(arr, i, r) == [j \in {i} |-> r]

\* variant: the write lands one slot after the cursor
WriteSlot_Next(arr, i, r) ==
  [j \in (DOMAIN arr) \cup {(i + 1) % MAX_ROWS} |->
     IF j = (i + 1) % MAX_ROWS THEN r ELSE arr[j]]

WriteSlot(arr, i, r) ==
  [j \in (DOMAIN arr) \cup {i} |-> IF j = i THEN r ELSE arr[j]]

\* variant: the cursor wraps one slot early
NextIndex_Early(i) == (i + 1) % (MAX_ROWS - 1)

\* variant: the cursor does not wrap
NextIndex_NoWrap(i) == i + 1

\* loop(): Temp_Array_Index = (Temp_Array_Index + 1) % MAX_ROWS
NextIndex(i) == (i + 1) % MAX_ROWS

\* variant: the cursor stays where it is
IncrIndex_Stay(i) == i

\* setupWiFi(): Temp_Array_Index++
IncrIndex(i) == i + 1

(***************************************************************************)
(* Alert policy                                                            *)
(***************************************************************************)
OutOfBounds(f, lo, hi) == f < lo \/ f > hi

\* variant: the webhook never posts
tempWebHook_Never(tempC, lo, hi) == 0

\* variant: the webhook does not look at the bounds
tempWebHook_Always(tempC, lo, hi) == 1

\* tempWebHook: the number of POSTs it makes for a reading
tempWebHook(tempC, lo, hi) ==
  IF ToFloat(tempC) > hi \/ ToFloat(tempC) < lo THEN 1 ELSE 0

\* variant: only the upper bound arms the first notification
FirstAlert_HighOnly(f, lo, hi, armed) == f > hi /\ ~armed

\* loop(): the condition of the first notification
FirstAlert(f, lo, hi, armed) == OutOfBounds(f, lo, hi) /\ ~armed

\* variant: the repeated notification is due on every armed tick
RepeatAlert_Always(t, last, delay, armed) == armed

\* variant: the repeated notification is due from the interval on
RepeatAlert_AtLeast(t, last, delay, armed) == ~UGt(delay, Sub32(t, last)) /\ armed

\* loop(): the condition of the repeated notification
RepeatAlert(t, last, delay, armed) == UGt(Sub32(t, last), delay) /\ armed

\* variant: the sample is due once the clock reads more than the deadline
SampleDue_Deadline(t, last) == UGt(t, Add32(last, timerDelay))

\* variant: the sample is due as soon as the interval has elapsed
SampleDue_AtLeast(t, last) == ~UGt(timerDelay, Sub32(t, last))

\* loop(): the condition of a sampling tick
SampleDue(t, last) == UGt(Sub32(t, last), timerDelay)

\* variant: the policy arms only when the POST succeeded
FirstNotify_ArmOnSuccess(f, tempC, t, hd, ok) ==
  IF FirstAlert(f, MIN_TEMP, MAX_TEMP, sendNotif)
  THEN [armed |-> ok, last |-> Add32(t, hd), t |-> Add32(t, hd),
        posts |-> 1, delivered |-> IF ok THEN 1 ELSE 0]
  ELSE [armed |-> sendNotif, last |-> lastNotifyTime, t |-> t, posts |-> 0,
        delivered |-> 0]

\* loop(), the first notification: the state of the tick after it, for the
\* reading tempC parsed as f at time t; a POST takes hd milliseconds and
\* succeeds when ok
FirstNotify(f, tempC, t, hd, ok) ==
  IF FirstAlert(f, MIN_TEMP, MAX_TEMP, sendNotif)
  THEN LET t1 == IF tempWebHook(tempC, MIN_TEMP, MAX_TEMP) = 1
                 THEN Add32(t, hd) ELSE t
       IN  [armed |-> TRUE, last |-> t1, t |-> t1,
            posts |-> tempWebHook(tempC, MIN_TEMP, MAX_TEMP),
            delivered |-> IF ok THEN tempWebHook(tempC, MIN_TEMP, MAX_TEMP)
                          ELSE 0]
  ELSE [armed |-> sendNotif, last |-> lastNotifyTime, t |-> t, posts |-> 0,
        delivered |-> 0]

\* variant: a reading within the bounds disarms the policy
RepeatNotify_Disarm(s1, tempC, hd, ok) ==
  IF tempWebHook(tempC, MIN_TEMP, MAX_TEMP) = 0
  THEN [s1 EXCEPT !.armed = FALSE] ELSE s1

\* variant: every tick stamps the time of the last notification
RepeatNotify_Touch(s1, tempC, hd, ok) == [s1 EXCEPT !.last = s1.t]

\* loop(), the repeated notification: the state of the tick after it, from
\* the state s1 after the first notification
RepeatNotify(s1, tempC, hd, ok) ==
  IF RepeatAlert(s1.t, s1.last, teamsNotificationDelay, s1.armed)
  THEN LET t2 == IF tempWebHook(tempC, MIN_TEMP, MAX_TEMP) = 1
                 THEN Add32(s1.t, hd) ELSE s1.t
       IN  [armed |-> s1.armed, last |-> t2, t |-> t2,
            posts |-> s1.posts + tempWebHook(tempC, MIN_TEMP, MAX_TEMP),
            delivered |-> s1.delivered +
                          (IF ok THEN tempWebHook(tempC, MIN_TEMP, MAX_TEMP)
                           ELSE 0)]
  ELSE s1

(***************************************************************************)
(* The loop task                                                           *)
(***************************************************************************)
\* variant: a user name is required for every security kind
CredentialsComplete_NeedsUser ==
  ssid_received /\ username_received /\ password_received /\ passcode_received

CredentialsComplete == ssid_received /\ password_received /\ passcode_received

\* the association setupWiFi starts for the security kind in force
BeginAssociation ==
  IF security = Personal
  THEN [kind |-> Personal, ssid |-> ssid, key |-> password, identity |-> ""]
  ELSE IF security = Enterprise
  THEN [kind |-> Enterprise, ssid |-> ssid, key |-> EAP_PASSWORD,
        identity |-> EAP_IDENTITY]
  ELSE NoAssociation

\* variant: the payload never carries the user login
InfoPayload_NoIdentity == [ssid |-> sta.ssid, userLogin |-> NoParam]

\* the payload of infoWebHook
InfoPayload ==
  IF security = Enterprise THEN [ssid |-> sta.ssid, userLogin |-> EAP_IDENTITY]
  ELSE [ssid |-> sta.ssid, userLogin |-> NoParam]

\* a pass of loop() while the credentials are incomplete, w milliseconds
\* after the last one; the time spent waiting is taken in one pass, the first
LoopWait(w) ==
  /\ pc = "loop"
  /\ waiting_to_connect
  /\ ~CredentialsComplete
  /\ w = 0 \/ now = 0
  /\ now' = Add32(now, w)
  /\ lastOp' = "wait"
  /\ UNCHANGED <<credVars, waiting_to_connect, counter, sta, routes, configVars,
                 lastTime, alertVars, storeVars, pc, tk, infoSent, histVars>>

\* a pass of loop() that enters setupWiFi, up to the retry loop
LoopConnect ==
  /\ pc = "loop"
  /\ waiting_to_connect
  /\ CredentialsComplete
  /\ counter' = 0
  /\ sta' = BeginAssociation
  /\ pc' = "poll"
  /\ lastOp' = "connect"
  /\ UNCHANGED <<credVars, waiting_to_connect, routes, configVars, lastTime,
                 alertVars, storeVars, now, tk, infoSent, histVars>>

\* variant: the retry counter starts over and the device never restarts
PollFail_Wrap ==
  /\ pc = "poll"
  /\ counter' = (counter + 1) % 2
  /\ pc' = "poll"
  /\ lastOp' = "poll"
  /\ UNCHANGED <<credVars, waiting_to_connect, sta, routes, configVars, lastTime,
                 alertVars, storeVars, now, tk, infoSent, histVars>>

\* variant: the restart comes one poll after the ceiling
PollFail_Late ==
  /\ pc = "poll"
  /\ now' = Add32(now, PollDelayMs)
  /\ counter' = counter + 1
  /\ pc' = IF counter + 1 > MaxRetries THEN "restart" ELSE "poll"
  /\ lastOp' = "poll"
  /\ UNCHANGED <<credVars, waiting_to_connect, sta, routes, configVars, lastTime,
                 alertVars, storeVars, tk, infoSent, histVars>>

\* setupWiFi: a status poll that finds the radio not connected
PollFail ==
  /\ pc = "poll"
  /\ now' = Add32(now, PollDelayMs)
  /\ counter' = counter + 1
  /\ pc' = IF counter + 1 >= MaxRetries THEN "restart" ELSE "poll"
  /\ lastOp' = "poll"
  /\ UNCHANGED <<credVars, waiting_to_connect, sta, routes, configVars, lastTime,
                 alertVars, storeVars, tk, infoSent, histVars>>

\* setupWiFi: a status poll that finds the radio connected, and the rest of
\* setupWiFi; raw1, raw2 are the two sensor conversions, clk the clock's answer
PollConnected(raw1, raw2, clk) ==
  /\ pc = "poll"
  /\ sta.kind # "none"
  /\ counter < MaxRetries
  /\ waiting_to_connect' = FALSE
  /\ infoSent' = Append(infoSent, InfoPayload)
  /\ EAP_IDENTITY' = "" /\ EAP_PASSWORD' = "" /\ password' = "" /\ passcode' = ""
  /\ \E r \in {Reading(readDSTemperatureC(raw1), readDSTemperatureF(raw2),
                        getLocalTime(clk, now))} :
         /\ temperatureC' = r.temperatureC
         /\ temperatureF' = r.temperatureF
         /\ currentTime' = r.currentTime
         /\ temperatureArray' = WriteSlot(temperatureArray, Temp_Array_Index, r)
         /\ appended' = Append(appended, r)
  /\ Temp_Array_Index' = IncrIndex(Temp_Array_Index)
  /\ routes' = routes \cup setupServer(FALSE)
  /\ pc' = "loop"
  /\ lastOp' = "connected"
  /\ tk' = [tk EXCEPT !.at = now]
  /\ UNCHANGED <<security, ssid, ssid_received, username_received,
                 passcode_received, password_received, security_received,
                 counter, sta, configVars, lastTime, alertVars, now, histVars>>

\* the facts of a sampling tick that read the clock at t0 and parsed its
\* reading as f, from the states s1, s2 after its two notification tests
TickRecord(t0, f, s1, s2) ==
  [armed0 |-> sendNotif, last0 |-> lastNotifyTime,
   elapsed |-> Sub32(s1.t, s1.last), posts |-> s2.posts,
   delivered |-> s2.delivered,
   posted |-> (tk.posted \/ s2.posts > 0),
   postAt |-> IF s2.posts > 0 THEN s2.last ELSE tk.postAt,
   posted0 |-> tk.posted,
   sincePost |-> IF tk.posted THEN Sub32(s1.t, tk.postAt) ELSE 0,
   episode |-> IF OutOfBounds(f, MIN_TEMP, MAX_TEMP)
               THEN tk.episode + s2.posts ELSE 0,
   at |-> t0]

\* a pass of loop() once connected, d milliseconds after the last one: the
\* sampling tick when it is due; a webhook POST of the tick takes hd
\* milliseconds and succeeds when ok
LoopRun(d, raw1, raw2, clk, hd, ok, cap) ==
  /\ pc = "loop"
  /\ ~waiting_to_connect
  /\ \E t0 \in {Add32(now, d)} :
       IF SampleDue(t0, lastTime)
       THEN \E r \in {Reading(readDSTemperatureC(raw1), readDSTemperatureF(raw2),
                              getLocalTime(clk, t0))} :
            \E f \in {ToFloat(r.temperatureC)} :
            \E s1 \in {FirstNotify(f, r.temperatureC, t0, hd, ok)} :
            \E s2 \in {RepeatNotify(s1, r.temperatureC, hd, ok)} :
              /\ Len(appended) < cap
              /\ temperatureC' = r.temperatureC
              /\ temperatureF' = r.temperatureF
              /\ currentTime' = r.currentTime
              /\ sendNotif' = s2.armed
              /\ lastNotifyTime' = s2.last
              /\ temperatureArray' = WriteSlot(temperatureArray, Temp_Array_Index, r)
              /\ appended' = Append(appended, r)
              /\ Temp_Array_Index' = NextIndex(Temp_Array_Index)
              /\ lastTime' = s2.t
              /\ now' = s2.t
              /\ tk' = TickRecord(t0, f, s1, s2)
              /\ lastOp' = "tick"
       ELSE /\ now' = t0
            /\ lastOp' = "idle"
            /\ UNCHANGED <<lastTime, alertVars, storeVars, tk>>
  /\ UNCHANGED <<credVars, waiting_to_connect, counter, sta, routes, configVars,
                 pc, infoSent, histVars>>

\* one of the three field writes to the slot at the cursor
WriteField(arr, i, field, v) ==
  [j \in (DOMAIN arr) \cup {i} |->
     IF j = i
     THEN [(IF i \in DOMAIN arr THEN arr[i] ELSE EmptyReading)
             EXCEPT ![field] = v]
     ELSE arr[j]]

\* the sampling tick of loop() while the web server's task runs beside the
\* loop task: the tick up to and including the write of the slot's
\* temperatureC
AppendBegin(d, raw1, raw2, clk, hd, ok, cap) ==
  /\ pc = "loop"
  /\ ~waiting_to_connect
  /\ \E t0 \in {Add32(now, d)} :
     \E r \in {Reading(readDSTemperatureC(raw1), readDSTemperatureF(raw2),
                       getLocalTime(clk, t0))} :
     \E f \in {ToFloat(r.temperatureC)} :
     \E s1 \in {FirstNotify(f, r.temperatureC, t0, hd, ok)} :
     \E s2 \in {RepeatNotify(s1, r.temperatureC, hd, ok)} :
       /\ SampleDue(t0, lastTime)
       /\ Len(appended) < cap
       /\ temperatureC' = r.temperatureC
       /\ temperatureF' = r.temperatureF
       /\ currentTime' = r.currentTime
       /\ sendNotif' = s2.armed
       /\ lastNotifyTime' = s2.last
       /\ temperatureArray' = WriteField(temperatureArray, Temp_Array_Index,
                                         "temperatureC", r.temperatureC)
       /\ appended' = Append(appended, r)
       /\ now' = s2.t
       /\ tk' = TickRecord(t0, f, s1, s2)
  /\ pc' = "appendF"
  /\ lastOp' = "appendC"
  /\ UNCHANGED <<credVars, waiting_to_connect, counter, sta, routes, configVars,
                 lastTime, Temp_Array_Index, infoSent, histVars>>

\* the write of the slot's temperatureF
AppendF ==
  /\ pc = "appendF"
  /\ temperatureArray' = WriteField(temperatureArray, Temp_Array_Index,
                                    "temperatureF", temperatureF)
  /\ pc' = "appendT"
  /\ lastOp' = "appendF"
  /\ UNCHANGED <<credVars, waiting_to_connect, counter, sta, routes, configVars,
                 lastTime, alertVars, temperatureC, temperatureF, currentTime,
                 Temp_Array_Index, appended, now, tk, infoSent, histVars>>

\* the write of the slot's currentTime and the rest of the tick
AppendT ==
  /\ pc = "appendT"
  /\ temperatureArray' = WriteField(temperatureArray, Temp_Array_Index,
                                    "currentTime", currentTime)
  /\ Temp_Array_Index' = NextIndex(Temp_Array_Index)
  /\ lastTime' = now
  /\ pc' = "loop"
  /\ lastOp' = "tick"
  /\ UNCHANGED <<credVars, waiting_to_connect, counter, sta, routes, configVars,
                 alertVars, temperatureC, temperatureF, currentTime, appended,
                 now, tk, infoSent, histVars>>

\* ESP.restart(): the sketch starts again from its initializers and setup()
Boot ==
  /\ pc = "restart"
  /\ security' = "" /\ ssid' = "" /\ password' = ""
  /\ EAP_IDENTITY' = "" /\ EAP_PASSWORD' = "" /\ passcode' = ""
  /\ ssid_received' = FALSE /\ username_received' = FALSE
  /\ passcode_received' = FALSE /\ password_received' = FALSE
  /\ security_received' = FALSE
  /\ waiting_to_connect' = TRUE
  /\ counter' = 0
  /\ sta' = NoAssociation
  /\ routes' = setupServer(TRUE)
  /\ MIN_TEMP' = DefaultMinTemp /\ MAX_TEMP' = DefaultMaxTemp
  /\ teamsNotificationDelay' = DefaultNotificationDelay
  /\ lastTime' = 0 /\ lastNotifyTime' = 0 /\ sendNotif' = FALSE
  /\ temperatureC' = EmptyStr /\ temperatureF' = EmptyStr
  /\ currentTime' = EmptyStr
  /\ temperatureArray' = NoSlotWritten
  /\ Temp_Array_Index' = 0
  /\ pc' = "loop" /\ now' = 0
  /\ lastOp' = "setup" /\ appended' = << >> /\ tk' = NoTick /\ infoSent' = << >>
  /\ supplied' = {} /\ codes' = {} /\ web' = NoWeb

(***************************************************************************)
(* Inputs and specifications                                               *)
(***************************************************************************)
GetRequest(sec, id, user, pw, code) ==
  [Security |-> sec, SSID |-> id, Username |-> user, Password |-> pw,
   Passcode |-> code]

\* the provisioning form filled in for a WPA2-Personal network
PersonalForm == GetRequest(Personal, "net", NoParam, "pw", SECRET_PASSCODE)

\* the provisioning form filled in for a WPA2-Enterprise network
EnterpriseForm == GetRequest(Enterprise, "net", "user", "pw", SECRET_PASSCODE)

\* the provisioning form's empty Security option, sent on its own
NoKindRequest == GetRequest("", NoParam, NoParam, NoParam, NoParam)

\* every /get request over a small alphabet of parameter values: each subset
\* of Security, SSID, Password and Passcode, and the enterprise form
AllGetRequests ==
  { GetRequest(sec, id, NoParam, pw, code) :
      sec \in {NoParam, "", Personal, Enterprise}, id \in {NoParam, "net"},
      pw \in {NoParam, "pw"}, code \in {NoParam, "wrong", SECRET_PASSCODE} }
  \cup {EnterpriseForm}

WideSettings == SettingsRequest(<<"-", "5">>, <<"3", "0">>, <<"6", "0">>)
DefaultSettings == SettingsRequest(<<"2", "2">>, <<"2", "5">>, <<"3", "0">>)
PartialSettings == SettingsRequest(<<"2", "0">>, <<"3", "0">>, Absent)
ExampleSettings == SettingsRequest(<<"2", "0">>, <<"3", "0">>, <<"6", "0">>)
\* texts that are not numbers
MalformedSettings ==
  SettingsRequest(<<"h", "o", "t">>, <<"3", "0">>, <<"s", "o", "o", "n">>)
\* the widest range of the settings form, no interval
ZeroSettings == SettingsRequest(<<"-", "5", "0">>, <<"5", "0">>, <<"0">>)
\* thresholds above 2^24 degrees, the longest interval an int product holds
LargeSettings ==
  SettingsRequest(<<"1", "6", "7", "7", "7", "2", "1", "7">>,
                  <<"1", "6", "7", "7", "7", "2", "1", "9">>,
                  <<"3", "5", "7", "9", "1">>)
\* an interval whose milliseconds fit an unsigned long but not a long
LongSettings == SettingsRequest(<<"2", "0">>, <<"3", "0">>,
                                <<"3", "5", "7", "9", "2">>)

\* one steady sensor: both conversions of a sample see the same temperature
Steady(raws) == { <<raw, raw>> : raw \in raws }

\* a scripted sensor: a fixed cycle of temperatures
Cycle == <<2350, 2600, DisconnectedC>>

\* the sensor's answers for the next sample: any of in.raws, or the next
\* temperature of the script when there is one
RawsOf(in) ==
  IF in.script = << >> THEN in.raws
  ELSE Steady({in.script[(Len(appended) % Len(in.script)) + 1]})

\* alerting: few provisioning inputs, the temperatures and the waits between
\* passes that take the alert policy through its branches
AlertInputs ==
  [gets   |-> {PersonalForm},
   sets   |-> {WideSettings},
   polls  |-> {0},
   waits  |-> {0},
   deltas |-> {300001, 1800000, 1800001},
   raws   |-> Steady({DisconnectedC, 2350, 2600}),
   script |-> << >>,
   clocks |-> {TRUE},
   hookMs |-> {150},
   hookOk |-> {TRUE, FALSE},
   cap    |-> MaxAppends]

\* provisioning: every /get request, and the device up to its first sample
ProvInputs ==
  [gets   |-> AllGetRequests,
   sets   |-> {DefaultSettings},
   polls  |-> {0, 59},
   waits  |-> {0},
   deltas |-> {300000},
   raws   |-> Steady({2350}),
   script |-> << >>,
   clocks |-> {TRUE},
   hookMs |-> {150},
   hookOk |-> {TRUE},
   cap    |-> ProvAppends]

\* the sample store: one scripted run, long enough to wrap the store
StoreInputs ==
  [gets   |-> {PersonalForm},
   sets   |-> {DefaultSettings},
   polls  |-> {0},
   waits  |-> {0},
   deltas |-> {300001},
   raws   |-> {},
   script |-> Cycle,
   clocks |-> {TRUE},
   hookMs |-> {150},
   hookOk |-> {TRUE},
   cap    |-> StoreAppends]

\* settings: every kind of /updateSettings request against a connected device
SetInputs ==
  [gets   |-> {PersonalForm},
   sets   |-> {ExampleSettings, WideSettings, ZeroSettings, LargeSettings,
               LongSettings, PartialSettings, MalformedSettings},
   polls  |-> {0},
   waits  |-> {0},
   deltas |-> {300001},
   raws   |-> Steady({2350}),
   script |-> << >>,
   clocks |-> {TRUE},
   hookMs |-> {150},
   hookOk |-> {TRUE},
   cap    |-> SetAppends]

NextOf(in) ==
  \/ \E r \in in.gets : Get(r)
  \/ \E r \in in.sets : UpdateSettings(r)
  \/ Data
  \/ Info
  \/ \E w \in in.waits : LoopWait(w)
  \/ LoopConnect
  \/ PollFail
  \/ \E raw \in RawsOf(in), clk \in in.clocks :
        counter \in in.polls /\ PollConnected(raw[1], raw[2], clk)
  \/ \E d \in in.deltas, raw \in RawsOf(in), clk \in in.clocks,
        hd \in in.hookMs, ok \in in.hookOk :
        LoopRun(d, raw[1], raw[2], clk, hd, ok, in.cap)
  \/ Boot

Next == NextOf(AlertInputs)
Spec == Init /\ [][Next]_vars

NextProv == NextOf(ProvInputs)
SpecProv == Init /\ [][NextProv]_vars

NextStore == NextOf(StoreInputs)
SpecStore == Init /\ [][NextStore]_vars

NextSet == NextOf(SetInputs)
SpecSet == Init /\ [][NextSet]_vars

\* connecting: a complete form, and a request that removes the security kind
LiveInputs ==
  [gets   |-> {PersonalForm, NoKindRequest},
   sets   |-> {DefaultSettings},
   polls  |-> {0, 59},
   waits  |-> {0},
   deltas |-> {300000},
   raws   |-> Steady({2350}),
   script |-> << >>,
   clocks |-> {TRUE},
   hookMs |-> {150},
   hookOk |-> {TRUE},
   cap    |-> LiveAppends]

\* an iteration of setupWiFi's retry loop: delay(500) returns and the status
\* is tested again
PollStep(in) ==
  \/ PollFail
  \/ \E raw \in RawsOf(in), clk \in in.clocks :
        counter \in in.polls /\ PollConnected(raw[1], raw[2], clk)

\* the loop task keeps running: the retry loop is not suspended forever
NextLive == NextOf(LiveInputs)
SpecLive == Init /\ [][NextLive]_vars /\ WF_vars(PollStep(LiveInputs))

\* the clock: credentials that arrive late, 400 seconds after the start or
\* 700 seconds before the 32-bit millisecond clock wraps, a reading above the
\* default bounds, and passes of 100 seconds and of just over the default
\* notification interval
ClockInputs ==
  [gets   |-> {PersonalForm},
   sets   |-> {DefaultSettings},
   polls  |-> {0},
   waits  |-> {0, 400000, Sub32(0, 700000)},
   deltas |-> {100000, 1800001},
   raws   |-> Steady({2600}),
   script |-> << >>,
   clocks |-> {TRUE},
   hookMs |-> {150},
   hookOk |-> {TRUE},
   cap    |-> ClockAppends]

NextClock == NextOf(ClockInputs)
SpecClock == Init /\ [][NextClock]_vars

\* the web server's task beside the loop task: two temperatures, so that
\* consecutive samples differ
RaceInputs ==
  [gets   |-> {PersonalForm},
   sets   |-> {DefaultSettings},
   polls  |-> {0},
   waits  |-> {0},
   deltas |-> {300001},
   raws   |-> Steady({2350, 2400}),
   script |-> << >>,
   clocks |-> {TRUE},
   hookMs |-> {150},
   hookOk |-> {TRUE},
   cap    |-> RaceAppends]

\* the program when the handlers run in the web server's own task and may
\* run between any two statements of loop(): the append is three steps
NextRace ==
  \/ \E r \in RaceInputs.gets : Get(r)
  \/ \E r \in RaceInputs.sets : UpdateSettings(r)
  \/ Data
  \/ Info
  \/ \E w \in RaceInputs.waits : LoopWait(w)
  \/ LoopConnect
  \/ PollFail
  \/ \E raw \in RawsOf(RaceInputs), clk \in RaceInputs.clocks :
        counter \in RaceInputs.polls /\ PollConnected(raw[1], raw[2], clk)
  \/ \E d \in RaceInputs.deltas, raw \in RawsOf(RaceInputs),
        clk \in RaceInputs.clocks, hd \in RaceInputs.hookMs,
        ok \in RaceInputs.hookOk :
        AppendBegin(d, raw[1], raw[2], clk, hd, ok, RaceInputs.cap)
  \/ AppendF
  \/ AppendT
  \/ Boot

SpecRace == Init /\ [][NextRace]_vars

(***************************************************************************)
(* Claims                                                                  *)
(***************************************************************************)
\* the last sampling tick's reading was outside the bounds in force
TickOutOfBounds == OutOfBounds(ToFloat(temperatureC), MIN_TEMP, MAX_TEMP)

\* C1: a sampling tick whose Celsius reading is the sentinel "--" sends no
\* threshold-breach notification, whatever the thresholds and the
\* notification state.
C1_SentinelNeverFires ==
  (lastOp = "tick" /\ temperatureC = Sentinel) => tk.posts = 0

\* C2: as long as no /get request has carried a Passcode equal to the
\* configured secret, the device is still gathering credentials: setupWiFi
\* has not been entered, whatever else the requests supplied.
C2_NoSecretNoConnect ==
  (SECRET_PASSCODE \notin codes) =>
    (pc = "loop" /\ waiting_to_connect /\ sta = NoAssociation)

\* C2 witness: SSID, security kind and password are received, a wrong
\* passcode was tried, and a pass of loop() has left the device waiting.
C2_Witness ==
  /\ ssid_received /\ security = Personal /\ password_received
  /\ "wrong" \in codes /\ SECRET_PASSCODE \notin codes
  /\ lastOp = "wait"

\* C3: with SSID, Security=WPA2-Personal and Password received and a wrong
\* Passcode tried earlier, once a /get has stored the correct Passcode the
\* very next pass of loop() enters setupWiFi (Connecting) and starts the
\* WPA2-Personal association.
C3_CorrectPasscodeConnects ==
  [][ ( /\ pc = "loop" /\ waiting_to_connect
        /\ ssid_received /\ security = Personal /\ password_received
        /\ "wrong" \in codes
        /\ lastOp = "get" /\ passcode = SECRET_PASSCODE
        /\ lastOp' \in {"wait", "connect"} )
      => (pc' = "poll" /\ sta'.kind = Personal) ]_vars

\* C3 witness: the device is connecting right after the correct passcode
\* followed a wrong one.
C3_Witness ==
  /\ lastOp = "connect" /\ pc = "poll"
  /\ security = Personal /\ passcode = SECRET_PASSCODE /\ "wrong" \in codes

\* C4: once an SSID, a security kind, a Password and the correct Passcode
\* have each been supplied in some request, in any order, a pass of loop()
\* does not leave the device waiting: it enters Connecting.
C4_AnyOrderConnects ==
  ( /\ ssid_received /\ security \in {Personal, Enterprise}
    /\ "Password" \in supplied /\ SECRET_PASSCODE \in codes )
  => lastOp # "wait"

\* C5: after exactly MAX_ROWS appends, slot 0 of the /data response holds the
\* first appended reading.
C5_FirstStaysAtCapacity ==
  Len(appended) = MAX_ROWS => Snapshot[1] = appended[1]

\* C5 witness: the append that filled the store has happened.
C5_Witness ==
  Len(appended) = MAX_ROWS /\ lastOp = "tick" /\ Temp_Array_Index = 0

\* C6 as stated: after exactly MAX_ROWS + 1 appends, slot 0 of the /data
\* response holds the second appended reading.
C6_SecondAtSlotZero ==
  Len(appended) = MAX_ROWS + 1 => Snapshot[1] = appended[2]

\* C6 amended: after exactly MAX_ROWS + 1 appends, slot 0 of the /data
\* response holds the most recent reading (it replaced the first one), and
\* the second appended reading is in slot 1.
C6_NewestAtSlotZero ==
  Len(appended) = MAX_ROWS + 1 =>
    (Snapshot[1] = appended[MAX_ROWS + 1] /\ Snapshot[2] = appended[2])

\* C6 witness: the first append after the store wrapped has happened.
C6_Witness ==
  Len(appended) = MAX_ROWS + 1 /\ lastOp = "tick" /\ Temp_Array_Index = 1

\* C7: the write cursor is always in [0, MAX_ROWS), no write lands outside
\* the MAX_ROWS slots, and the /data response has exactly MAX_ROWS objects.
C7_CursorInRange ==
  /\ Temp_Array_Index \in 0..(MAX_ROWS - 1)
  /\ DOMAIN temperatureArray \subseteq 0..(MAX_ROWS - 1)
  /\ Len(Snapshot) = MAX_ROWS

\* C7 witness: both append sites have run and the cursor has wrapped.
C7_Witness ==
  Len(appended) > MAX_ROWS /\ Temp_Array_Index = 2

\* C8: a sampling tick that starts unarmed with a reading outside the bounds
\* sends a breach notification in that tick, arms, and sets the time of the
\* last notification to the current time.
C8_FirstBreachFires ==
  (lastOp = "tick" /\ ~tk.armed0 /\ TickOutOfBounds) =>
    (tk.posts >= 1 /\ sendNotif /\ lastNotifyTime = now)

\* C8 witness: an unarmed tick read 26.00 against the default bounds and fired.
C8_Witness ==
  /\ lastOp = "tick" /\ ~tk.armed0 /\ temperatureC = FormatFloat(2600)
  /\ MAX_TEMP = DefaultMaxTemp /\ tk.posts = 1 /\ sendNotif

\* C9 as stated: an armed tick with a reading outside the bounds and at least
\* the notification interval elapsed since the last notification (exactly
\* the interval included) fires again and sets the time of the last
\* notification to the current time.
C9_FiresFromInterval ==
  (lastOp = "tick" /\ tk.armed0 /\ TickOutOfBounds
     /\ ~UGt(teamsNotificationDelay, tk.elapsed)) =>
    (tk.posts >= 1 /\ lastNotifyTime = now)

\* C9 amended: an armed tick with a reading outside the bounds fires again,
\* and sets the time of the last notification to the current time, when more
\* than the notification interval has elapsed; when the elapsed time is the
\* interval or less it sends nothing and leaves that time unchanged.
C9_FiresAfterInterval ==
  (lastOp = "tick" /\ tk.armed0 /\ TickOutOfBounds) =>
    IF UGt(tk.elapsed, teamsNotificationDelay)
    THEN tk.posts = 1 /\ lastNotifyTime = now
    ELSE tk.posts = 0 /\ lastNotifyTime = tk.last0

\* C9 witness: an armed tick outside the bounds fired again after more than
\* the interval.
C9_Witness ==
  /\ lastOp = "tick" /\ tk.armed0 /\ TickOutOfBounds
  /\ UGt(tk.elapsed, teamsNotificationDelay) /\ tk.posts = 1

\* C10 as stated: an armed tick with a reading inside the bounds and more
\* than the notification interval elapsed delivers a breach notification.
C10_RenotifiesInBounds ==
  (lastOp = "tick" /\ tk.armed0 /\ ~TickOutOfBounds
     /\ UGt(tk.elapsed, teamsNotificationDelay)) =>
    tk.posts >= 1

\* C10 amended: an armed tick with a reading inside the bounds and more than
\* the notification interval elapsed delivers nothing (the webhook checks
\* the bounds itself), yet sets the time of the last notification to the
\* current time.
C10_SilentInBounds ==
  (lastOp = "tick" /\ tk.armed0 /\ ~TickOutOfBounds
     /\ UGt(tk.elapsed, teamsNotificationDelay)) =>
    (tk.posts = 0 /\ lastNotifyTime = now /\ sendNotif)

\* C10 witness: an armed tick read 23.50 inside the bounds after more than
\* the interval.
C10_Witness ==
  /\ lastOp = "tick" /\ tk.armed0 /\ temperatureC = FormatFloat(2350)
  /\ ~TickOutOfBounds /\ UGt(tk.elapsed, teamsNotificationDelay)

\* C11: in setupWiFi the 60th failed status poll restarts the device, no
\* attempt makes more than 60 failed polls, a poll below the ceiling does not
\* restart, and a connection found at or before the 60th poll leaves the
\* device running.
C11_RestartAtCeiling ==
  /\ counter \in 0..MaxRetries
  /\ (pc = "poll" => counter < MaxRetries)
  /\ (lastOp = "poll" => (pc = "restart" <=> counter = MaxRetries))
  /\ (lastOp = "connected" => (pc = "loop" /\ counter < MaxRetries))

\* C11 witness: the 60th failed poll has restarted the device.
C11_Witness ==
  pc = "restart" /\ lastOp = "poll" /\ counter = MaxRetries /\ waiting_to_connect

\* the largest value of a long
LongMax == 2147483647

\* a text that is an integer: an optional sign and digits, nothing else
IsInteger(s) ==
  /\ s # Absent
  /\ \E ip \in {ScanDigits(s, SignLen(s) + 1, 0, 0)} :
       ip.n >= 1 /\ ip.i = Len(s) + 1

\* the last /updateSettings request submitted integers, the interval not
\* negative
IntegerSettings ==
  /\ IsInteger(web.req.minTemperature)
  /\ IsInteger(web.req.maxTemperature)
  /\ IsInteger(web.req.timerDelay) /\ ToInt(web.req.timerDelay) >= 0

\* the values the last /updateSettings request submitted
Submitted ==
  InfoJson(ToInt(web.req.minTemperature), ToInt(web.req.maxTemperature),
           ToInt(web.req.timerDelay))

\* C12 as stated: after a /updateSettings with integer thresholds and a
\* non-negative interval whose milliseconds fit the 32 bit unsigned storage,
\* /info reports the submitted values.
C12_InfoReportsSubmitted ==
  (lastOp = "info" /\ IntegerSettings
     /\ ToInt(web.req.timerDelay) <= UMinutes(-1)) =>
    InfoResponse = Submitted

\* C12 amended: after a /updateSettings with integer thresholds of magnitude
\* at most 2^24 (the integers a float holds exactly) and a non-negative
\* interval whose milliseconds fit a 32 bit signed long (at most 35791
\* minutes), /info reports the submitted values.
C12_InfoReportsExact ==
  (lastOp = "info" /\ IntegerSettings
     /\ ToInt(web.req.minTemperature) \in (-2 * FloatMantissa)..(2 * FloatMantissa)
     /\ ToInt(web.req.maxTemperature) \in (-2 * FloatMantissa)..(2 * FloatMantissa)
     /\ ToInt(web.req.timerDelay) <= millisecondsToMinutes(LongMax)) =>
    InfoResponse = Submitted

\* C12 witness: /info after /updateSettings?minTemperature=20&
\* maxTemperature=30&timerDelay=60 reports 20, 30 and 60.
C12_Witness ==
  /\ lastOp = "info" /\ web.req = ExampleSettings
  /\ InfoResponse = InfoJson(20, 30, 60)

\* C13: a /updateSettings request that omits a parameter leaves that field
\* of the configuration at its previous value and the device keeps running.
C13_MissingFieldIgnored ==
  (lastOp = "updateSettings" /\ ParamMissing(web.req)) =>
    /\ pc # "restart"
    /\ (web.req.minTemperature = Absent => MIN_TEMP = web.before.minTemperature)
    /\ (web.req.maxTemperature = Absent => MAX_TEMP = web.before.maxTemperature)
    /\ (web.req.timerDelay = Absent =>
          teamsNotificationDelay = web.before.timerDelay)

\* a parameter that is present and has no digit
Unparsable(s) == s # Absent /\ \A i \in 1..Len(s) : ~IsDigit(s[i])

\* C14: a /updateSettings request with a parameter that is present but not a
\* number leaves that field of the configuration at its previous value.
C14_MalformedFieldKept ==
  (lastOp = "updateSettings" /\ ~ParamMissing(web.req)) =>
    /\ (Unparsable(web.req.minTemperature) =>
          MIN_TEMP = web.before.minTemperature)
    /\ (Unparsable(web.req.maxTemperature) =>
          MAX_TEMP = web.before.maxTemperature)
    /\ (Unparsable(web.req.timerDelay) =>
          teamsNotificationDelay = web.before.timerDelay)

\* C15: when setupWiFi has connected, the security kind, ssid, password,
\* enterprise identity, enterprise password and passcode are all empty.
C15_CredentialsCleared ==
  lastOp = "connected" =>
    /\ security = "" /\ ssid = "" /\ password = ""
    /\ EAP_IDENTITY = "" /\ EAP_PASSWORD = "" /\ passcode = ""

\* C16: once connected, a /get request changes no credential field and no
\* received flag.
C16_GetInertOnceConnected ==
  [][ (~waiting_to_connect /\ lastOp' = "get") => UNCHANGED credVars ]_vars

\* C17: once waiting_to_connect is false the device never restarts.
C17_ConnectedNeverRestarts ==
  ~waiting_to_connect => pc # "restart"

\* C18: the device-identity notification has been sent exactly once when the
\* device is connected and not at all before; it is sent by the step that
\* connects, carries the user login held at that moment when the security
\* kind is WPA2-Enterprise, and the login is cleared by the same step.
C18_OneIdentityNotification ==
  /\ [](Len(infoSent) = IF waiting_to_connect THEN 0 ELSE 1)
  /\ [][ lastOp' = "connected" =>
           /\ infoSent = << >> /\ Len(infoSent') = 1
           /\ (security = Enterprise =>
                 infoSent'[1].userLogin = EAP_IDENTITY)
           /\ EAP_IDENTITY' = "" ]_vars

\* C18 witness: an enterprise device is connected, its one notification
\* carried the login "user" and the login is cleared.
C18_Witness ==
  /\ ~waiting_to_connect /\ security = Enterprise
  /\ infoSent = <<[ssid |-> "net", userLogin |-> "user"]>>
  /\ EAP_IDENTITY = ""

\* C19: the step that connects appends exactly one sample, at slot 0, and
\* leaves the cursor at 1; whenever /data is registered slot 0 has been
\* written.
C19_ImmediateSample ==
  /\ (lastOp = "connected" =>
        /\ Len(appended) = 1 /\ Temp_Array_Index = 1
        /\ DOMAIN temperatureArray = {0} /\ Slot(0) = appended[1])
  /\ ("/data" \in routes =>
        (0 \in DOMAIN temperatureArray /\ Len(appended) >= 1))

\* C19 witness: /data is served right after the device connected.
C19_Witness ==
  /\ lastOp = "data" /\ Len(appended) = 1 /\ Temp_Array_Index = 1
  /\ Slot(0) = appended[1]

\* C20: after a sampling tick the armed flag, the time of the last
\* notification, the store and the cursor are determined by the reading, the
\* bounds, the earlier armed flag and the elapsed time alone, whether the
\* POST succeeded or not; the tick makes one POST when it fires and none
\* otherwise, so a failed POST is not repeated.
C20_FailureSwallowed ==
  lastOp = "tick" =>
    /\ sendNotif = (tk.armed0 \/ TickOutOfBounds)
    /\ lastNotifyTime =
         IF (~tk.armed0 /\ TickOutOfBounds)
              \/ (tk.armed0 /\ UGt(tk.elapsed, teamsNotificationDelay))
         THEN now ELSE tk.last0
    /\ tk.posts =
         IF TickOutOfBounds
              /\ (~tk.armed0 \/ UGt(tk.elapsed, teamsNotificationDelay))
         THEN 1 ELSE 0
    /\ tk.delivered <= tk.posts
    /\ appended[Len(appended)] = Reading(temperatureC, temperatureF, currentTime)
    /\ Slot((Temp_Array_Index + MAX_ROWS - 1) % MAX_ROWS) = appended[Len(appended)]
    /\ Temp_Array_Index = Len(appended) % MAX_ROWS

\* C20 witness: a tick fired, its POST failed, and the policy is armed with
\* the time of the last notification set.
C20_Witness ==
  /\ lastOp = "tick" /\ tk.posts = 1 /\ tk.delivered = 0
  /\ ~tk.armed0 /\ sendNotif /\ lastNotifyTime = now

\* C21: the sample store, the cursor and the notification state are written
\* only by the loop task (setupWiFi, a sampling tick, or the initialisation
\* after a restart), and the threshold configuration only by the
\* /updateSettings handler (or that initialisation).
C21_SingleWriter ==
  [][ /\ (<<temperatureArray, Temp_Array_Index, lastNotifyTime, sendNotif>>'
            # <<temperatureArray, Temp_Array_Index, lastNotifyTime, sendNotif>>
          => lastOp' \in {"connected", "tick", "setup"})
      /\ (configVars' # configVars => lastOp' \in {"updateSettings", "setup"})
    ]_vars

\* C21 witness: a sampling tick has run against a configuration that the
\* handler changed.
C21_Witness ==
  /\ lastOp = "tick" /\ MIN_TEMP # DefaultMinTemp /\ Len(appended) >= 2
  /\ web.req = WideSettings

\* C22: once sendNotif is true it stays true in every step but the
\* initialisation after a restart.
C22_ArmedMonotone ==
  [][ sendNotif => (sendNotif' \/ lastOp' = "setup") ]_vars

\* C22 witness: an armed tick read a temperature within the bounds and the
\* policy is still armed.
C22_Witness ==
  lastOp = "tick" /\ tk.armed0 /\ ~TickOutOfBounds /\ sendNotif

\* C23: after n appends the cursor is n mod MAX_ROWS, the slots written are
\* those of the appends, each of the most recent min(n, MAX_ROWS) appends k is
\* in slot (k-1) mod MAX_ROWS, and the cursor of a full store points at the
\* oldest reading; an append writes the slot at the cursor and no other.
C23_StoreHoldsRecent ==
  /\ [] ( /\ Temp_Array_Index = Len(appended) % MAX_ROWS
          /\ DOMAIN temperatureArray =
               { (k - 1) % MAX_ROWS : k \in 1..Len(appended) }
          /\ \A k \in 1..Len(appended) :
               k > Len(appended) - MAX_ROWS =>
                 Slot((k - 1) % MAX_ROWS) = appended[k]
          /\ (Len(appended) >= MAX_ROWS =>
                Slot(Temp_Array_Index) = appended[Len(appended) - MAX_ROWS + 1]) )
  /\ [][ Len(appended') = Len(appended) + 1 =>
           /\ DOMAIN temperatureArray' =
                DOMAIN temperatureArray \cup {Temp_Array_Index}
           /\ temperatureArray'[Temp_Array_Index] = appended'[Len(appended')]
           /\ \A j \in DOMAIN temperatureArray \ {Temp_Array_Index} :
                temperatureArray'[j] = temperatureArray[j] ]_vars

\* C23 witness: two appends have overwritten the two oldest readings.
C23_Witness ==
  /\ Len(appended) = MAX_ROWS + 2 /\ lastOp = "tick"
  /\ Slot(1) = appended[MAX_ROWS + 2] /\ Slot(2) = appended[3]

\* C24: when setupWiFi is entered, the credential the association uses under
\* the security kind in force holds a Password the operator supplied.
C24_SlotHoldsPassword ==
  lastOp = "connect" =>
    /\ (security = Personal => password # "")
    /\ (security = Enterprise => EAP_PASSWORD # "")

\* C25: until the device is connected nothing has been sampled or notified
\* and the configuration has its defaults: no slot is written, the cursor is
\* 0, the policy is unarmed, no POST has been made and the thresholds and the
\* interval are 22, 25 and 30 minutes.
C25_IdleBeforeConnected ==
  waiting_to_connect =>
    /\ temperatureArray = NoSlotWritten /\ Temp_Array_Index = 0
    /\ appended = << >>
    /\ ~sendNotif /\ lastNotifyTime = 0 /\ tk = NoTick
    /\ MIN_TEMP = DefaultMinTemp /\ MAX_TEMP = DefaultMaxTemp
    /\ teamsNotificationDelay = DefaultNotificationDelay

\* C25 witness: a /get request is served while setupWiFi is polling.
C25_Witness ==
  waiting_to_connect /\ pc = "poll" /\ counter > 0 /\ lastOp = "get"

C27_Throttled ==
  lastOp = "tick" =>
    /\ ((tk.posts >= 1 /\ tk.posted0) =>
          UGt(tk.sincePost, teamsNotificationDelay))
    /\ ((tk.armed0 /\ TickOutOfBounds
           /\ UGt(teamsNotificationDelay, tk.elapsed)) =>
          (tk.posts = 0 /\ lastNotifyTime = tk.last0))

\* C27 witness: a second POST was made more than the interval after the first.
C27_Witness ==
  /\ lastOp = "tick" /\ tk.posts = 1 /\ tk.posted0
  /\ UGt(tk.sincePost, teamsNotificationDelay)

\* C28 as stated: after a tick that leaves the policy armed with a reading
\* outside the bounds, a POST has been made since a tick last read a
\* temperature within the bounds.
C28_EpisodeNotified ==
  (lastOp = "tick" /\ sendNotif /\ TickOutOfBounds) => tk.episode >= 1

\* C28 amended: an armed policy means that a POST has been made since the
\* device started; a tick that leaves the policy armed with a reading outside
\* the bounds and no POST since the reading was last within them found the
\* policy armed with no more than the interval elapsed.
C28_ArmedMeansNotifiedOnce ==
  /\ (sendNotif => tk.posted)
  /\ ((lastOp = "tick" /\ sendNotif /\ TickOutOfBounds /\ tk.episode = 0) =>
        (tk.armed0 /\ ~UGt(tk.elapsed, teamsNotificationDelay)))

\* C28 witness: the reading left the bounds again while the policy was armed
\* and the tick made no POST.
C28_Witness ==
  /\ lastOp = "tick" /\ sendNotif /\ TickOutOfBounds
  /\ tk.episode = 0 /\ tk.posted

C29_ConnectingTerminates ==
  /\ [](pc = "poll" => counter < MaxRetries)
  /\ ((pc = "poll") ~> (pc = "restart" \/ ~waiting_to_connect))

\* C29 witness: setupWiFi started no association (the security kind is
\* empty) and the 60th failed poll restarted the device.
C29_Witness ==
  /\ pc = "restart" /\ lastOp = "poll" /\ counter = MaxRetries
  /\ security = "" /\ sta = NoAssociation

\* C32: while the device gathers credentials, passcode_received is true
\* exactly when the passcode stored last is the configured secret.
C32_FlagTracksStoredPasscode ==
  (waiting_to_connect /\ pc = "loop") =>
    (passcode_received <=> passcode = SECRET_PASSCODE)

\* C32: while the device gathers credentials, passcode_received is true
\* exactly when some /get request since the start supplied the configured
\* secret; a wrong passcode stored afterwards leaves it true.
C32_FlagRemembersSecret ==
  (waiting_to_connect /\ pc = "loop") =>
    (passcode_received <=> SECRET_PASSCODE \in codes)

\* C32 witness: the secret and then a wrong passcode were supplied; the flag
\* is set, the wrong passcode is the stored one and setupWiFi has started.
C32_Witness ==
  /\ waiting_to_connect /\ pc = "poll" /\ passcode_received
  /\ passcode = "wrong" /\ codes = {SECRET_PASSCODE, "wrong"}

\* C33: every sampling tick takes its sample more than the sampling interval
\* after the sample before it, the one setupWiFi took included.
C33_AppendsSpaced ==
  [][ lastOp' = "tick" => UGt(Sub32(tk'.at, tk.at), timerDelay) ]_vars

\* C33: a sampling tick that follows another takes its sample more than the
\* sampling interval after that one; the first sampling tick takes its
\* sample when the clock reads more than the interval, however long ago
\* setupWiFi took its sample.
C33_TicksSpaced ==
  [][ lastOp' = "tick" =>
        IF Len(appended) >= 2
        THEN UGt(Sub32(tk'.at, tk.at), timerDelay)
        ELSE lastTime = 0 /\ UGt(tk'.at, timerDelay)
    ]_vars

\* C33 witness: setupWiFi sampled at 400000 ms, the first tick 100 seconds
\* later and the second tick 400 seconds after the first had ended.
C33_Witness ==
  /\ lastOp = "tick" /\ Len(appended) = 3 /\ tk.at = 900150
  /\ lastTime = tk.at

\* C34: with the elapsed time computed modulo 2^32, a pass of loop() samples
\* exactly when more than the sampling interval has elapsed since lastTime,
\* and then once; an armed tick with a reading outside the bounds makes a POST
\* exactly when more than the notification interval has elapsed.
C34_WrapSafe ==
  [][ /\ lastOp' = "tick" =>
           /\ UGt(Sub32(tk'.at, lastTime), timerDelay)
           /\ Len(appended') = Len(appended) + 1
           /\ (tk'.armed0 /\ TickOutOfBounds') =>
                (tk'.posts = 1 <=> UGt(tk'.elapsed, teamsNotificationDelay))
      /\ lastOp' = "idle" =>
           /\ ~UGt(Sub32(now', lastTime), timerDelay)
           /\ appended' = appended
    ]_vars

\* C34 witness: a tick after the wrap of the clock, armed by a notification
\* sent before the wrap, repeats the notification.
C34_Witness ==
  /\ lastOp = "tick" /\ Len(appended) = 3 /\ tk.armed0 /\ tk.posts = 1
  /\ tk.last0 < 0 /\ tk.at >= 0 /\ tk.at = 1200151
  /\ tk.elapsed = 1800001

\* C31: every slot a /data response shows is the empty reading or the three
\* fields of one sample, also when the handler runs between the field writes
\* of an append.
C31_NoTornReads ==
  lastOp = "data" =>
    \A i \in DOMAIN temperatureArray :
      \/ temperatureArray[i] = EmptyReading
      \/ \E k \in 1..Len(appended) : temperatureArray[i] = appended[k]

====
